---- MODULE Spec2Model ----
(***************************************************************************)
(* The gaze-tracking overlay of the portfolio page: the FaceLooker         *)
(* component (src/src/components/FaceLooker.tsx) mounted inside Avatar     *)
(* (src/src/components/Avatar.tsx).                                        *)
(*                                                                         *)
(* Numbers.  Props, pointer coordinates and rectangle edges are integers.  *)
(* The only non-integer values the handlers compute are the normalized     *)
(* offsets nx, ny; they are kept as exact fractions [n |-> num, d |-> den] *)
(* with den >= 0.  A fraction with d = 0 is the result of a JavaScript     *)
(* division by zero: +Infinity (n > 0), -Infinity (n < 0) or NaN (n = 0).  *)
(* Integer-valued quantities (pupil, grid index, pixel offset) that are    *)
(* NaN in JavaScript carry the value NaN below; every operator tests for   *)
(* it first and propagates it as IEEE arithmetic does.  Arithmetic is      *)
(* exact (no binary rounding error); the pointer inputs avoid rounding     *)
(* ties.                                                                   *)
(***************************************************************************)
EXTENDS Integers, Sequences, FiniteSets, TLC

\* Number of idle timers one run may create (caps nextTimerId).
MaxTimers == 3

\* The value of an integer-valued quantity that is NaN in JavaScript.
NaN == -1000000

\* idleTimerRef.current before any timer was started.
Null == 0

TimerIds == 1..MaxTimers

(***************************************************************************)
(* Props.  gridSize, minValue, maxValue and step have the defaults of the  *)
(* component; spriteWidth, spriteHeight and size are required props        *)
(* (spriteWidth a multiple of gridSize in every configuration below, so    *)
(* that the cell size is an integer).  The sprite sheet is square in the   *)
(* first two configurations and twice as high as wide in the third.        *)
(***************************************************************************)
DefaultProps ==
  [gridSize |-> 11, minValue |-> -15, maxValue |-> 15, step |-> 3,
   spriteWidth |-> 1100, spriteHeight |-> 1100, size |-> 54]

\* A second symmetric configuration: grid steps -2, -1, 0, 1, 2.
SmallProps ==
  [gridSize |-> 5, minValue |-> -2, maxValue |-> 2, step |-> 1,
   spriteWidth |-> 500, spriteHeight |-> 500, size |-> 200]

\* A consistent configuration whose minValue is not a multiple of step:
\* grid steps 1, 4, 7.
ShiftedProps ==
  [gridSize |-> 3, minValue |-> 1, maxValue |-> 7, step |-> 3,
   spriteWidth |-> 300, spriteHeight |-> 600, size |-> 50]

PropsSet == {DefaultProps, SmallProps, ShiftedProps}

(***************************************************************************)
(* Environment: the bounding box of the tracking region and the pointer    *)
(* coordinates events carry.  The last rectangle is that of a hidden       *)
(* (display: none) element.                                                *)
(***************************************************************************)
Rects ==
  { [left |-> 0,  top |-> 0, width |-> 20, height |-> 20],
    [left |-> 10, top |-> 0, width |-> 30, height |-> 10],
    [left |-> 0,  top |-> 0, width |-> 0,  height |-> 0] }

Coords == {-10, 0, 8, 10, 14, 20, 40}

Points == [clientX : Coords, clientY : Coords]

\* e.touches of a touchmove event: no touch, or the first touch.
TouchLists == {<<>>} \cup { <<pt>> : pt \in Points }

EventNames == {"mousemove", "touchmove", "touchend"}

VARIABLES
  props,               \* the props of the mounted FaceLooker
  phase,               \* "rendered" (before the effect ran), "mounted", "unmounted"
  containerRef,        \* containerRef.current is attached
  rect,                \* what getBoundingClientRect() returns
  listeners,           \* window listeners the component has registered
  currentPupil,        \* useState currentPupil
  gridPosition,        \* useState gridPosition
  backgroundPosition,  \* useState backgroundPosition
  isLooking,           \* Avatar's useState isLooking
  idleTimerRef,        \* idleTimerRef.current (Null or a timer id)
  timers,              \* ids of the timeouts that are pending
  nextTimerId,         \* the id the next setTimeout returns
  lastStep,            \* the operation that produced this state
  lastEvent,           \* <<clientX, clientY>> if that operation ran the body of
                       \* handlePointerMove, <<>> otherwise
  calls,               \* the callbacks that operation invoked, in order
  idleFired,           \* the idle timer expired since the last handled move
  call,                \* the last application of a pure function: its name,
                       \* arguments and results
  avatarPhase,         \* Avatar: "rendered", "mounted", "unmounted"
  shake,               \* Avatar's useState shake
  avatarTimers,        \* the timeouts of Avatar that are pending
  mountShakeTimer,     \* `timer` of the mount-shake effect (Null or an id)
  randomShakeTimer,    \* `timer` of the random-shake effect (Null or an id)
  avatarNextId,        \* the id the next setTimeout of Avatar returns
  now,                 \* milliseconds since Avatar's effects ran
  lastAvatarStep       \* the Avatar operation that produced this state

\* The state of FaceLooker and of its parent's gaze flag.
lookerVars ==
  <<props, phase, containerRef, rect, listeners, currentPupil, gridPosition,
    backgroundPosition, isLooking, idleTimerRef, timers, nextTimerId,
    lastStep, lastEvent, calls, idleFired>>

\* The state of Avatar's shake animation.
avatarVars ==
  <<avatarPhase, shake, avatarTimers, mountShakeTimer, randomShakeTimer,
    avatarNextId, now, lastAvatarStep>>

vars == <<lookerVars, call, avatarVars>>

----------------------------------------------------------------------------
(* Pure helpers *)

MathMax(a, b) == IF a = NaN \/ b = NaN THEN NaN ELSE IF a >= b THEN a ELSE b

MathMin(a, b) == IF a = NaN \/ b = NaN THEN NaN ELSE IF a <= b THEN a ELSE b

\* Math.round(num/den) for den > 0: the nearest integer, ties toward +Infinity.
MathRound(num, den) == (2 * num + den) \div (2 * den)

\* clamp on integer-valued numbers.
clamp(value, min, max) == MathMax(min, MathMin(max, value))

One == [n |-> 1, d |-> 1]

MinusOne == [n |-> -1, d |-> 1]

\* clamp(nx, -1, 1) on a fraction; Math.min/Math.max return NaN for NaN and
\* the bound for an infinity.
clampUnit(f) ==
  IF f.d = 0
    THEN IF f.n = 0 THEN f ELSE IF f.n > 0 THEN One ELSE MinusOne
    ELSE IF f.n > f.d THEN One ELSE IF f.n < -f.d THEN MinusOne ELSE f

\* getBackgroundPosition with the grid index taken from the pupil value itself,
\* the subtraction of minValue forgotten.
getBackgroundPositionUnshifted(pupilX, pupilY) ==
  LET colIndex == IF pupilX = NaN THEN NaN ELSE MathRound(pupilX, props.step)
      rowIndex == IF pupilY = NaN THEN NaN ELSE MathRound(pupilY, props.step)
      clampedCol == MathMax(0, MathMin(props.gridSize - 1, colIndex))
      clampedRow == MathMax(0, MathMin(props.gridSize - 1, rowIndex))
      actualCellSize == props.spriteWidth \div props.gridSize
      xOffset == IF clampedCol = NaN THEN NaN ELSE -(clampedCol * actualCellSize)
      yOffset == IF clampedRow = NaN THEN NaN ELSE -(clampedRow * actualCellSize)
  IN  [x |-> xOffset, y |-> yOffset, col |-> clampedCol, row |-> clampedRow]

\* getBackgroundPosition(pupilX, pupilY)
getBackgroundPosition(pupilX, pupilY) ==
  LET colIndex == IF pupilX = NaN THEN NaN
                  ELSE MathRound(pupilX - props.minValue, props.step)
      rowIndex == IF pupilY = NaN THEN NaN
                  ELSE MathRound(pupilY - props.minValue, props.step)
      clampedCol == MathMax(0, MathMin(props.gridSize - 1, colIndex))
      clampedRow == MathMax(0, MathMin(props.gridSize - 1, rowIndex))
      actualCellSize == props.spriteWidth \div props.gridSize
      xOffset == IF clampedCol = NaN THEN NaN ELSE -(clampedCol * actualCellSize)
      yOffset == IF clampedRow = NaN THEN NaN ELSE -(clampedRow * actualCellSize)
  IN  [x |-> xOffset, y |-> yOffset, col |-> clampedCol, row |-> clampedRow]

\* quantizeToGrid with the division by 2 of the linear map left out.
quantizeToGridNoHalving(val) ==
  IF val.d = 0 THEN NaN
  ELSE LET rawNum == props.minValue * val.d
                       + (val.n + val.d) * (props.maxValue - props.minValue)
           rawDen == val.d
           snapped == MathRound(rawNum, rawDen * props.step) * props.step
       IN  clamp(snapped, props.minValue, props.maxValue)

\* quantizeToGrid(val), val a fraction in [-1, 1] or NaN.
\*   raw     = minValue + ((val + 1) * (maxValue - minValue)) / 2
\*   snapped = Math.round(raw / step) * step
quantizeToGrid(val) ==
  IF val.d = 0 THEN NaN
  ELSE LET rawNum == 2 * props.minValue * val.d
                       + (val.n + val.d) * (props.maxValue - props.minValue)
           rawDen == 2 * val.d
           snapped == MathRound(rawNum, rawDen * props.step) * props.step
       IN  clamp(snapped, props.minValue, props.maxValue)

----------------------------------------------------------------------------
(* Callbacks and state updates *)

\* onCenter={() => setIsLooking(false)}
onCenter ==
  /\ isLooking' = FALSE
  /\ calls' = <<"onCenter">>

\* onLooking={() => setIsLooking(true)}
onLooking ==
  /\ isLooking' = TRUE
  /\ calls' = <<"onLooking">>

\* updatePupilPosition notifying the parent only when the gaze state changes.
updatePupilPositionOnChange(pupilX, pupilY, triggerCallback) ==
  LET pos == getBackgroundPosition(pupilX, pupilY)
      centered == pupilX = 0 /\ pupilY = 0
  IN
  /\ currentPupil' = [x |-> pupilX, y |-> pupilY]
  /\ backgroundPosition' = [x |-> pos.x, y |-> pos.y]
  /\ gridPosition' = [col |-> pos.col, row |-> pos.row]
  /\ IF triggerCallback /\ isLooking = centered
       THEN IF centered THEN onCenter ELSE onLooking
       ELSE /\ UNCHANGED isLooking
            /\ calls' = <<>>

\* updatePupilPosition testing only the X axis for the center.
updatePupilPositionXOnly(pupilX, pupilY, triggerCallback) ==
  LET pos == getBackgroundPosition(pupilX, pupilY) IN
  /\ currentPupil' = [x |-> pupilX, y |-> pupilY]
  /\ backgroundPosition' = [x |-> pos.x, y |-> pos.y]
  /\ gridPosition' = [col |-> pos.col, row |-> pos.row]
  /\ IF triggerCallback
       THEN IF pupilX = 0 THEN onCenter ELSE onLooking
       ELSE /\ UNCHANGED isLooking
            /\ calls' = <<>>

\* updatePupilPosition(pupilX, pupilY, triggerCallback = true)
updatePupilPosition(pupilX, pupilY, triggerCallback) ==
  LET pos == getBackgroundPosition(pupilX, pupilY) IN
  /\ currentPupil' = [x |-> pupilX, y |-> pupilY]
  /\ backgroundPosition' = [x |-> pos.x, y |-> pos.y]
  /\ gridPosition' = [col |-> pos.col, row |-> pos.row]
  /\ IF triggerCallback
       THEN IF pupilX = 0 /\ pupilY = 0 THEN onCenter ELSE onLooking
       ELSE /\ UNCHANGED isLooking
            /\ calls' = <<>>

\* fadeToCenter with the callback dropped.
fadeToCenterSilent ==
  /\ UNCHANGED isLooking
  /\ calls' = <<>>
  /\ UNCHANGED <<currentPupil, gridPosition, backgroundPosition>>

\* fadeToCenter resetting the position through updatePupilPosition(0, 0).
fadeToCenterResetting == updatePupilPosition(0, 0, TRUE)

\* fadeToCenter: only the callback, no position update.
fadeToCenter ==
  /\ onCenter
  /\ UNCHANGED <<currentPupil, gridPosition, backgroundPosition>>

\* if (idleTimerRef.current !== null) clearTimeout(idleTimerRef.current);
\* idleTimerRef.current = setTimeout(() => fadeToCenter(), idleTimeout);
restartIdleTimer ==
  /\ timers' = (IF idleTimerRef # Null THEN timers \ {idleTimerRef} ELSE timers)
                 \cup {nextTimerId}
  /\ idleTimerRef' = nextTimerId
  /\ nextTimerId' = nextTimerId + 1

\* The pointer mapping with the Y axis not inverted.
pointerToPupilNotInverted(clientX, clientY) ==
  LET nx == [n |-> 2 * (clientX - rect.left) - rect.width,
             d |-> rect.width]
      ny == [n |-> 2 * clientY - 2 * rect.top - rect.height,
             d |-> rect.height]
  IN  [x |-> quantizeToGrid(clampUnit(nx)), y |-> quantizeToGrid(clampUnit(ny))]

\* The arithmetic of handlePointerMove: the bounding box, the normalized
\* offsets nx = (clientX - centerX) / (rect.width / 2) and
\* ny = (centerY - clientY) / (rect.height / 2), the clamp and the quantizer.
pointerToPupil(clientX, clientY) ==
  LET nx == [n |-> 2 * (clientX - rect.left) - rect.width,
             d |-> rect.width]
      ny == [n |-> 2 * rect.top + rect.height - 2 * clientY,
             d |-> rect.height]
      clampedX == clampUnit(nx)
      clampedY == clampUnit(ny)
      pupilX == quantizeToGrid(clampedX)
      pupilY == quantizeToGrid(clampedY)
  IN  [x |-> pupilX, y |-> pupilY]

\* handlePointerMove(clientX, clientY)
handlePointerMove(clientX, clientY) ==
  IF ~containerRef
    THEN /\ lastEvent' = <<>>
         /\ calls' = <<>>
         /\ UNCHANGED <<currentPupil, gridPosition, backgroundPosition,
                        isLooking, idleTimerRef, timers, nextTimerId, idleFired>>
    ELSE LET pupil == pointerToPupil(clientX, clientY)
         IN  /\ updatePupilPosition(pupil.x, pupil.y, TRUE)
             /\ restartIdleTimer
             /\ lastEvent' = <<clientX, clientY>>
             /\ idleFired' = FALSE

\* handleTouchEnd starting a timer without clearing the pending one.
handleTouchEndNoClear ==
  /\ timers' = timers \cup {nextTimerId}
  /\ idleTimerRef' = nextTimerId
  /\ nextTimerId' = nextTimerId + 1
  /\ lastEvent' = <<>>
  /\ calls' = <<>>
  /\ UNCHANGED <<currentPupil, gridPosition, backgroundPosition, isLooking,
                 idleFired>>

\* handleTouchEnd also moving the gaze back to the center.
handleTouchEndRecentering ==
  /\ updatePupilPosition(0, 0, TRUE)
  /\ restartIdleTimer
  /\ lastEvent' = <<>>
  /\ UNCHANGED idleFired

\* handleTouchEnd
handleTouchEnd ==
  /\ restartIdleTimer
  /\ lastEvent' = <<>>
  /\ calls' = <<>>
  /\ UNCHANGED <<currentPupil, gridPosition, backgroundPosition, isLooking,
                 idleFired>>

\* An event dispatched on window while no listener for it is registered.
notDelivered ==
  /\ lastEvent' = <<>>
  /\ calls' = <<>>
  /\ UNCHANGED <<currentPupil, gridPosition, backgroundPosition, isLooking,
                 idleTimerRef, timers, nextTimerId, idleFired>>

\* The cleanup removing the listeners but leaving the idle timer pending.
cleanupKeepsTimer ==
  /\ listeners' = {}
  /\ UNCHANGED timers

\* The cleanup function the effect returns.
cleanup ==
  /\ listeners' = {}
  /\ timers' = IF idleTimerRef # Null THEN timers \ {idleTimerRef} ELSE timers

\* The overlay of Avatar shown instead of hidden.
overlayOpacityInverted == IF isLooking THEN 0 ELSE 1

\* opacity: isLooking ? 1 : 0
overlayOpacity == IF isLooking THEN 1 ELSE 0

\* The inline style of the rendered element, its pixel values as exact
\* fractions:
\*   actualCellSize = spriteWidth / gridSize
\*   scaleFactor    = size / actualCellSize
\*   backgroundSize     = spriteWidth * scaleFactor, spriteHeight * scaleFactor
\*   backgroundPosition = backgroundPosition.x * scaleFactor,
\*                        backgroundPosition.y * scaleFactor
style ==
  LET scaleFactor == [n |-> props.size * props.gridSize, d |-> props.spriteWidth]
      scaled(v) == IF v = NaN THEN [n |-> 0, d |-> 0]
                   ELSE [n |-> v * scaleFactor.n, d |-> scaleFactor.d]
  IN  [width |-> props.size,
       height |-> props.size,
       backgroundSize |-> [width |-> scaled(props.spriteWidth),
                           height |-> scaled(props.spriteHeight)],
       backgroundPosition |-> [x |-> scaled(backgroundPosition.x),
                               y |-> scaled(backgroundPosition.y)]]

----------------------------------------------------------------------------
(* Email obfuscation.  A string is the sequence of its character codes; a   *)
(* Base64 string is the sequence of the alphabet indices 0..63 of its       *)
(* characters, with Pad for '='.                                            *)

\* The emails and keys the generator is run with.
MaxEmailLen == 3

MaxKeyLen == 2

EmailChars == {64, 97, 122, 233}

KeyChars == {49, 75, 121}

StringsOver(chars, maxLen) == UNION { [1..len -> chars] : len \in 1..maxLen }

Emails == StringsOver(EmailChars, MaxEmailLen)

Keys == StringsOver(KeyChars, MaxKeyLen)

Pad == 64

\* a ^ b on non-negative integers.
RECURSIVE BitXor(_, _)
BitXor(a, b) ==
  IF a = 0 /\ b = 0 THEN 0
  ELSE (((a % 2) + (b % 2)) % 2) + 2 * BitXor(a \div 2, b \div 2)

\* One character of rot13: letters are rotated by 13, the rest is kept.
rot13Char(code) ==
  IF (code >= 65 /\ code <= 90) \/ (code >= 97 /\ code <= 122)
    THEN LET isUpperCase == code >= 65 /\ code <= 90
             base == IF isUpperCase THEN 65 ELSE 97
         IN  ((code - base + 13) % 26) + base
    ELSE code

\* rot13 of the generator script.
scriptRot13(str) == [i \in 1..Len(str) |-> rot13Char(str[i])]

\* rot13 of EmailLink's click handler.
rot13(str) == [i \in 1..Len(str) |-> rot13Char(str[i])]

\* for (i...) out += String.fromCharCode(data.charCodeAt(i) ^ key.charCodeAt(i % key.length))
xorWithKey(data, key) ==
  [i \in 1..Len(data) |-> BitXor(data[i], key[((i - 1) % Len(key)) + 1])]

\* Buffer.from(str, 'binary'): the low byte of every character code.
bufferFromBinary(str) == [i \in 1..Len(str) |-> str[i] % 256]

\* buffer.toString('base64')
RECURSIVE toBase64(_)
toBase64(bytes) ==
  IF Len(bytes) = 0 THEN <<>>
  ELSE IF Len(bytes) = 1
    THEN <<bytes[1] \div 4, (bytes[1] % 4) * 16, Pad, Pad>>
  ELSE IF Len(bytes) = 2
    THEN <<bytes[1] \div 4,
           (bytes[1] % 4) * 16 + bytes[2] \div 16,
           (bytes[2] % 16) * 4,
           Pad>>
  ELSE <<bytes[1] \div 4,
         (bytes[1] % 4) * 16 + bytes[2] \div 16,
         (bytes[2] % 16) * 4 + bytes[3] \div 64,
         bytes[3] % 64>>
       \o toBase64(SubSeq(bytes, 4, Len(bytes)))

\* atob(data) on a well-formed Base64 string.
RECURSIVE atob(_)
atob(data) ==
  IF Len(data) < 4 THEN <<>>
  ELSE LET c1 == data[1]
           c2 == data[2]
           c3 == data[3]
           c4 == data[4]
           b1 == c1 * 4 + c2 \div 16
           b2 == (c2 % 16) * 16 + c3 \div 4
           b3 == (c3 % 4) * 64 + c4
       IN  IF c3 = Pad THEN <<b1>>
           ELSE IF c4 = Pad THEN <<b1, b2>>
           ELSE <<b1, b2, b3>> \o atob(SubSeq(data, 5, Len(data)))

\* The generator script: the props it prints for <EmailLink>.
obfuscate(email, key) ==
  LET encodedKey == scriptRot13(key)
      encrypted == xorWithKey(email, key)
      encryptedData == toBase64(bufferFromBinary(encrypted))
  IN  [encryptedData |-> encryptedData, encodedKey |-> encodedKey]

\* handleClick using the encoded key as the XOR key, the rot13 step left out.
handleClickKeyNotDecoded(encryptedData, encodedKey) ==
  LET encryptedBytes == atob(encryptedData)
      decrypted == xorWithKey(encryptedBytes, encodedKey)
  IN  [scheme |-> "mailto", address |-> decrypted]

\* handleClick: the location EmailLink opens, mailto:<decrypted>.
handleClick(encryptedData, encodedKey) ==
  LET xorKey == rot13(encodedKey)
      encryptedBytes == atob(encryptedData)
      decrypted == xorWithKey(encryptedBytes, xorKey)
  IN  [scheme |-> "mailto", address |-> decrypted]

----------------------------------------------------------------------------
(* Operations *)

Init ==
  /\ props \in PropsSet
  /\ phase = "rendered"
  /\ containerRef = TRUE
  /\ rect \in Rects
  /\ listeners = {}
  /\ currentPupil = [x |-> 0, y |-> 0]
  /\ gridPosition = [col |-> 0, row |-> 0]
  /\ backgroundPosition = [x |-> 0, y |-> 0]
  /\ isLooking = FALSE
  /\ idleTimerRef = Null
  /\ timers = {}
  /\ nextTimerId = 1
  /\ lastStep = "render"
  /\ lastEvent = <<>>
  /\ calls = <<>>
  /\ idleFired = FALSE
  /\ call = [fn |-> "none"]
  /\ avatarPhase = "rendered"
  /\ shake = FALSE
  /\ avatarTimers = {}
  /\ mountShakeTimer = Null
  /\ randomShakeTimer = Null
  /\ avatarNextId = 1
  /\ now = 0
  /\ lastAvatarStep = "render"

\* The effect initializing through the notifying path (triggerCallback left
\* at its default).
MountNotifying ==
  /\ phase = "rendered"
  /\ phase' = "mounted"
  /\ updatePupilPosition(0, 0, TRUE)
  /\ listeners' = EventNames
  /\ lastStep' = "mount"
  /\ lastEvent' = <<>>
  /\ UNCHANGED <<props, containerRef, rect, idleTimerRef, timers, nextTimerId,
                 idleFired>>
  /\ UNCHANGED <<call, avatarVars>>

\* The effect runs after the first render.
Mount ==
  /\ phase = "rendered"
  /\ phase' = "mounted"
  /\ updatePupilPosition(0, 0, FALSE)
  /\ listeners' = EventNames
  /\ lastStep' = "mount"
  /\ lastEvent' = <<>>
  /\ UNCHANGED <<props, containerRef, rect, idleTimerRef, timers, nextTimerId,
                 idleFired>>
  /\ UNCHANGED <<call, avatarVars>>

\* window dispatches mousemove.
MouseMove(clientX, clientY) ==
  /\ nextTimerId <= MaxTimers
  /\ IF "mousemove" \in listeners
       THEN handlePointerMove(clientX, clientY)
       ELSE notDelivered
  /\ lastStep' = "mousemove"
  /\ UNCHANGED <<props, phase, containerRef, rect, listeners>>
  /\ UNCHANGED <<call, avatarVars>>

\* window dispatches touchmove.
TouchMove(touches) ==
  /\ nextTimerId <= MaxTimers
  /\ IF "touchmove" \in listeners /\ Len(touches) > 0
       THEN handlePointerMove(touches[1].clientX, touches[1].clientY)
       ELSE notDelivered
  /\ lastStep' = "touchmove"
  /\ UNCHANGED <<props, phase, containerRef, rect, listeners>>
  /\ UNCHANGED <<call, avatarVars>>

\* window dispatches touchend.
TouchEnd ==
  /\ nextTimerId <= MaxTimers
  /\ IF "touchend" \in listeners THEN handleTouchEnd ELSE notDelivered
  /\ lastStep' = "touchend"
  /\ UNCHANGED <<props, phase, containerRef, rect, listeners>>
  /\ UNCHANGED <<call, avatarVars>>

\* A pending timeout expires and runs its callback.
IdleTimerFire(id) ==
  /\ id \in timers
  /\ timers' = timers \ {id}
  /\ fadeToCenter
  /\ idleFired' = TRUE
  /\ lastStep' = "timer"
  /\ lastEvent' = <<>>
  /\ UNCHANGED <<props, phase, containerRef, rect, listeners, idleTimerRef,
                 nextTimerId>>
  /\ UNCHANGED <<call, avatarVars>>

\* The component is removed: the ref is detached and the cleanup runs.
Unmount ==
  /\ phase = "mounted"
  /\ phase' = "unmounted"
  /\ containerRef' = FALSE
  /\ cleanup
  /\ lastStep' = "unmount"
  /\ lastEvent' = <<>>
  /\ calls' = <<>>
  /\ UNCHANGED <<props, rect, currentPupil, gridPosition, backgroundPosition,
                 isLooking, idleTimerRef, nextTimerId, idleFired>>
  /\ UNCHANGED <<call, avatarVars>>

\* The page layout changes the bounding box of the tracking region.
Layout(r) ==
  /\ r # rect
  /\ rect' = r
  /\ lastStep' = "layout"
  /\ lastEvent' = <<>>
  /\ calls' = <<>>
  /\ UNCHANGED <<props, phase, containerRef, listeners, currentPupil,
                 gridPosition, backgroundPosition, isLooking, idleTimerRef,
                 timers, nextTimerId, idleFired>>
  /\ UNCHANGED <<call, avatarVars>>

Next ==
  \/ Mount
  \/ \E pt \in Points : MouseMove(pt.clientX, pt.clientY)
  \/ \E touches \in TouchLists : TouchMove(touches)
  \/ TouchEnd
  \/ \E id \in TimerIds : IdleTimerFire(id)
  \/ Unmount
  \/ \E r \in Rects : Layout(r)

Spec == Init /\ [][Next]_vars

\* A timeout that stays pending expires.
FairSpec == Spec /\ \A id \in TimerIds : WF_vars(IdleTimerFire(id))

----------------------------------------------------------------------------
(* Applications of the pure functions: one application per behaviour,       *)
(* recorded in call.  The props and the bounding box are those the initial  *)
(* state chose.                                                             *)

\* The generator is run on (email, key) and the link it describes is clicked.
EmailRoundTrip(email, key) ==
  /\ call.fn = "none"
  /\ LET out == obfuscate(email, key) IN
       call' = [fn |-> "email", email |-> email, key |-> key,
                encodedKey |-> out.encodedKey,
                encryptedData |-> out.encryptedData,
                href |-> handleClick(out.encryptedData, out.encodedKey)]
  /\ UNCHANGED <<lookerVars, avatarVars>>

\* Largest denominator of the normalized values the quantizer is applied to.
MaxDen == 5

\* The fractions n/d in [-1, 1] with d <= MaxDen.
UnitFractions == UNION { { [n |-> n, d |-> d] : n \in (-d)..d } : d \in 1..MaxDen }

\* The normalized value the linear map of quantizeToGrid sends to p:
\* 2 * (p - minValue) / (maxValue - minValue) - 1.
normalizedOf(p) ==
  [n |-> 2 * (p - props.minValue) - (props.maxValue - props.minValue),
   d |-> props.maxValue - props.minValue]

\* v is quantized, the result is mapped back to its normalized value and
\* quantized again; both results are resolved to their grid cell.
Requantize(v) ==
  /\ call.fn = "none"
  /\ LET p == quantizeToGrid(v)
         back == normalizedOf(p)
         again == quantizeToGrid(back)
         cell == getBackgroundPosition(p, p)
         cellAgain == getBackgroundPosition(again, again)
     IN  call' = [fn |-> "quantize", v |-> v, p |-> p, back |-> back,
                  again |-> again, cell |-> cell.col, cellAgain |-> cellAgain.col]
  /\ UNCHANGED <<lookerVars, avatarVars>>

\* The pointer mapping of handlePointerMove applied to two pointer positions.
MapPointers(from, to) ==
  /\ call.fn = "none"
  /\ call' = [fn |-> "pointer", from |-> from, to |-> to,
              pupilFrom |-> pointerToPupil(from.clientX, from.clientY),
              pupilTo |-> pointerToPupil(to.clientX, to.clientY)]
  /\ UNCHANGED <<lookerVars, avatarVars>>

PureNext ==
  \/ \E email \in Emails, key \in Keys : EmailRoundTrip(email, key)
  \/ \E v \in UnitFractions : Requantize(v)
  \/ \E from \in Points, to \in Points : MapPointers(from, to)

PureSpec == Init /\ [][PureNext]_vars

----------------------------------------------------------------------------
(* Avatar's shake animation.  A pending timeout is a record of its id, its  *)
(* kind, the delay it was set with and the time it is due; the timeout that *)
(* is due first expires first, equal due times in the order of creation.    *)

\* Number of timeouts Avatar may create in one run (caps avatarNextId).
MaxAvatarTimers == 8

\* setTimeout(..., 300) of the mount-shake effect.
MountShakeDelay == 300

\* setTimeout(() => setShake(false), 600)
ShakeDuration == 600

\* Math.random() * (120000 - 60000) + 60000 for Math.random() in [0, 1):
\* the ends of the range and two values inside.
RandomDelays == {60000, 75000, 90000, 119999}

\* setTimeout(callback, delay) called at time `at`, returning id.
Timeout(id, kind, delay, at) ==
  [id |-> id, kind |-> kind, delay |-> delay, due |-> at + delay]

\* clearTimeout(id)
ClearTimeout(pending, id) == { u \in pending : u.id # id }

\* t is the pending timeout that expires next.
ExpiresNext(t) ==
  /\ t \in avatarTimers
  /\ \A u \in avatarTimers : t.due < u.due \/ (t.due = u.due /\ t.id <= u.id)

\* Both effects of Avatar run after its first render: the mount shake is
\* set for 300 ms and scheduleRandomShake() sets the first random shake.
AvatarMount(randomDelay) ==
  /\ avatarPhase = "rendered"
  /\ avatarPhase' = "mounted"
  /\ mountShakeTimer' = avatarNextId
  /\ randomShakeTimer' = avatarNextId + 1
  /\ avatarTimers' =
       avatarTimers \cup
         { Timeout(avatarNextId, "mountShake", MountShakeDelay, now),
           Timeout(avatarNextId + 1, "randomShake", randomDelay, now) }
  /\ avatarNextId' = avatarNextId + 2
  /\ lastAvatarStep' = "mount"
  /\ UNCHANGED <<shake, now>>
  /\ UNCHANGED <<lookerVars, call>>

\* The mount-shake timeout expires: setShake(true) and a timeout for
\* setShake(false).
MountShakeFire(t) ==
  /\ ExpiresNext(t)
  /\ t.kind = "mountShake"
  /\ now' = t.due
  /\ shake' = TRUE
  /\ avatarTimers' =
       (avatarTimers \ {t}) \cup
         { Timeout(avatarNextId, "shakeEnd", ShakeDuration, t.due) }
  /\ avatarNextId' = avatarNextId + 1
  /\ lastAvatarStep' = "setShake(true)"
  /\ UNCHANGED <<avatarPhase, mountShakeTimer, randomShakeTimer>>
  /\ UNCHANGED <<lookerVars, call>>

\* A random-shake timeout expires: setShake(true), a timeout for
\* setShake(false), and scheduleRandomShake() sets the next random shake.
RandomShakeFire(t, randomDelay) ==
  /\ avatarNextId + 1 <= MaxAvatarTimers
  /\ ExpiresNext(t)
  /\ t.kind = "randomShake"
  /\ now' = t.due
  /\ shake' = TRUE
  /\ randomShakeTimer' = avatarNextId + 1
  /\ avatarTimers' =
       (avatarTimers \ {t}) \cup
         { Timeout(avatarNextId, "shakeEnd", ShakeDuration, t.due),
           Timeout(avatarNextId + 1, "randomShake", randomDelay, t.due) }
  /\ avatarNextId' = avatarNextId + 2
  /\ lastAvatarStep' = "setShake(true)"
  /\ UNCHANGED <<avatarPhase, mountShakeTimer>>
  /\ UNCHANGED <<lookerVars, call>>

\* The timeout set inside a shake expires: setShake(false).
ShakeEndFire(t) ==
  /\ ExpiresNext(t)
  /\ t.kind = "shakeEnd"
  /\ now' = t.due
  /\ shake' = FALSE
  /\ avatarTimers' = avatarTimers \ {t}
  /\ lastAvatarStep' = "setShake(false)"
  /\ UNCHANGED <<avatarPhase, mountShakeTimer, randomShakeTimer, avatarNextId>>
  /\ UNCHANGED <<lookerVars, call>>

\* Avatar is removed: the cleanups of both effects run, each clearing the
\* timeout its `timer` holds.
AvatarUnmount ==
  /\ avatarPhase = "mounted"
  /\ avatarPhase' = "unmounted"
  /\ avatarTimers' =
       ClearTimeout(ClearTimeout(avatarTimers, mountShakeTimer), randomShakeTimer)
  /\ lastAvatarStep' = "unmount"
  /\ UNCHANGED <<shake, mountShakeTimer, randomShakeTimer, avatarNextId, now>>
  /\ UNCHANGED <<lookerVars, call>>

AvatarNext ==
  \/ \E randomDelay \in RandomDelays : AvatarMount(randomDelay)
  \/ \E t \in avatarTimers : MountShakeFire(t)
  \/ \E t \in avatarTimers, randomDelay \in RandomDelays :
       RandomShakeFire(t, randomDelay)
  \/ \E t \in avatarTimers : ShakeEndFire(t)
  \/ AvatarUnmount

AvatarSpec == Init /\ [][AvatarNext]_vars

----------------------------------------------------------------------------
TypeOK ==
  /\ props \in PropsSet
  /\ phase \in {"rendered", "mounted", "unmounted"}
  /\ containerRef \in BOOLEAN
  /\ rect \in Rects
  /\ listeners \subseteq EventNames
  /\ isLooking \in BOOLEAN
  /\ idleTimerRef \in {Null} \cup TimerIds
  /\ timers \subseteq TimerIds
  /\ nextTimerId \in 1..(MaxTimers + 1)
  /\ idleFired \in BOOLEAN

----------------------------------------------------------------------------
(* Vocabulary of the properties *)

Center == [x |-> 0, y |-> 0]

Moves == {"mousemove", "touchmove"}

\* The state was produced by a move event that ran the body of handlePointerMove.
HandledMove == lastStep \in Moves /\ lastEvent # <<>>

Measurable == rect.width > 0 /\ rect.height > 0

\* The configuration is consistent: gridSize == (maxValue - minValue)/step + 1.
Consistent(p) ==
  /\ p.step > 0
  /\ (p.maxValue - p.minValue) % p.step = 0
  /\ p.gridSize = (p.maxValue - p.minValue) \div p.step + 1

\* {minValue, minValue + step, ..., maxValue}
GridSteps == { props.minValue + k * props.step : k \in 0..(props.gridSize - 1) }

----------------------------------------------------------------------------
(* C1 *)

\* Timer id was started by a move that resolved to a non-center pupil and is
\* still the pending idle timer.
Armed(id) ==
  /\ phase = "mounted"
  /\ HandledMove
  /\ currentPupil # Center
  /\ idleTimerRef = id
  /\ id \in timers

\* Timer id was superseded by a further event, or the component was unmounted,
\* or the timer expired: the gaze state is centered, the expiry invoked
\* onCenter() once and left no timer pending that could invoke it again.
Settled(id) ==
  \/ idleTimerRef # id
  \/ phase = "unmounted"
  \/ /\ lastStep = "timer"
     /\ idleTimerRef = id
     /\ ~isLooking
     /\ calls = <<"onCenter">>
     /\ timers = {}

\* C1: after a pointer-move that resolves to a non-center pupil, unless a
\* further pointer-move, touch-move or touch-end arrives or the component is
\* unmounted, the idle timer eventually fires, the gaze state becomes centered
\* and onCenter() is invoked exactly once for that idle period.
C1_IdleFallback == \A id \in TimerIds : Armed(id) ~> Settled(id)

\* An idle expiry after a non-center move: centered, one onCenter().
C1_Witness ==
  /\ phase = "mounted"
  /\ lastStep = "timer"
  /\ currentPupil # Center
  /\ idleFired
  /\ ~isLooking
  /\ calls = <<"onCenter">>
  /\ timers = {}

----------------------------------------------------------------------------
(* C2 *)

\* C2 as stated: a callback is invoked only by a step that changes the gaze
\* state; a step that leaves the gaze state the same invokes none.
C2_TransitionsOnly == [][calls' # <<>> => isLooking' # isLooking]_vars

\* C2 as amended: every handled pointer-move or touch-move invokes exactly one
\* callback, onCenter() if the resolved pupil is (0,0) and onLooking()
\* otherwise, and every idle expiry invokes onCenter(), whether or not the
\* gaze state changes; no other step invokes a callback, and the gaze state
\* changes only in a step that invokes one.
C2_CallbackPerHandledEvent ==
  [][ /\ (lastStep' \in Moves /\ lastEvent' # <<>>)
         => calls' = <<IF currentPupil' = Center THEN "onCenter" ELSE "onLooking">>
      /\ lastStep' = "timer" => calls' = <<"onCenter">>
      /\ (lastStep' \notin Moves \cup {"timer"} \/ lastEvent' = <<>>)
         /\ lastStep' # "timer"
         => calls' = <<>>
      /\ isLooking' # isLooking => calls' # <<>>
    ]_vars

\* An idle expiry while the gaze is at the center cell and no move has been
\* handled since the previous expiry: onCenter() is invoked again.
C2_Witness ==
  /\ phase = "mounted"
  /\ lastStep = "timer"
  /\ currentPupil = Center
  /\ idleTimerRef >= 2
  /\ calls = <<"onCenter">>

----------------------------------------------------------------------------
(* C3 *)

\* C3: after unmount no listener of the component remains registered, no idle
\* timer remains pending, and no step invokes onCenter() or onLooking().
C3_TeardownSilent ==
  phase = "unmounted" => /\ listeners = {}
                         /\ timers = {}
                         /\ calls = <<>>

\* An event dispatched after an unmount that found the idle timer pending
\* (the overlay was still looking and no expiry had happened since the move).
C3_Witness ==
  /\ phase = "unmounted"
  /\ lastStep \in EventNames
  /\ idleTimerRef # Null
  /\ isLooking
  /\ ~idleFired

----------------------------------------------------------------------------
(* C4 *)

\* C4: at most one idle timer is pending, and it is the one idleTimerRef
\* holds; a handled event leaves exactly the timer it started pending; an
\* expiry invokes onCenter() only and leaves no timer pending, so a burst of
\* events ends in one expiry.
C4_SingleIdleTimer ==
  /\ Cardinality(timers) <= 1
  /\ timers \subseteq {idleTimerRef}
  /\ (phase = "mounted" /\ (HandledMove \/ lastStep = "touchend"))
       => timers = {idleTimerRef}
  /\ lastStep = "timer" => (timers = {} /\ calls = <<"onCenter">>)

\* A touch-end following a non-center move with no expiry in between: the
\* timer of the move was cancelled, the timer of the touch-end is pending.
C4_Witness ==
  /\ phase = "mounted"
  /\ lastStep = "touchend"
  /\ isLooking
  /\ ~idleFired
  /\ idleTimerRef >= 2
  /\ timers = {idleTimerRef}

----------------------------------------------------------------------------
(* C5 *)

\* C5: a pointer-move or touch-move delivered while the tracking region is
\* missing or zero-sized leaves pupil, grid coordinate and render offset
\* unchanged and invokes no callback.
C5_UnmeasurableNoOp ==
  [][ (lastStep' \in Moves /\ (~containerRef \/ ~Measurable))
        => /\ UNCHANGED <<currentPupil, gridPosition, backgroundPosition>>
           /\ calls' = <<>>
    ]_vars

----------------------------------------------------------------------------
(* C6 *)

\* C6 as stated: after mount the parent's gaze state is centered if and only
\* if the current pupil is exactly (0,0).
C6_CenteredIffPupilZero ==
  phase # "rendered" => (~isLooking <=> currentPupil = Center)

\* C6 as amended: after mount the parent's gaze state is centered if and only
\* if the current pupil is exactly (0,0) or the idle timer has expired since
\* the last handled pointer move (the expiry centers the gaze state and leaves
\* the pupil as it was).
C6_CenteredIffPupilZeroOrIdle ==
  phase # "rendered" => (~isLooking <=> (currentPupil = Center \/ idleFired))

\* Centered by an idle expiry while the pupil is off center.
C6_Witness ==
  /\ phase = "mounted"
  /\ idleFired
  /\ currentPupil # Center
  /\ ~isLooking

----------------------------------------------------------------------------
(* C7 *)

\* C7: in every reachable state the grid coordinate lies in [0, gridSize-1]
\* on both axes and the render offset is (-col*cellSize, -row*cellSize).
C7_GridAndOffset ==
  LET cellSize == props.spriteWidth \div props.gridSize IN
  /\ 0 <= gridPosition.col /\ gridPosition.col <= props.gridSize - 1
  /\ 0 <= gridPosition.row /\ gridPosition.row <= props.gridSize - 1
  /\ backgroundPosition.x = -(gridPosition.col * cellSize)
  /\ backgroundPosition.y = -(gridPosition.row * cellSize)

----------------------------------------------------------------------------
(* C8 *)

\* C8: under every consistent configuration, a move over a measurable region
\* (normalized inputs in [-1,1]) quantizes both axes to a member of
\* {minValue, minValue+step, ..., maxValue}.
C8_QuantizeOnGrid ==
  (HandledMove /\ Measurable /\ Consistent(props))
    => (currentPupil.x \in GridSteps /\ currentPupil.y \in GridSteps)

----------------------------------------------------------------------------
(* C9 *)

----------------------------------------------------------------------------
(* C10 *)

\* v is a grid step nearest to 15 times the fraction f: |v - 15 f| <= 3/2.
NearestDefaultStep(v, f) ==
  /\ v \in {-15, -12, -9, -6, -3, 0, 3, 6, 9, 12, 15}
  /\ 2 * (v * f.d - 15 * f.n) <= 3 * f.d
  /\ 2 * (15 * f.n - v * f.d) <= 3 * f.d

\* C10: with the defaults and spriteWidth 1100, a move over a measurable
\* region yields the pupil nearest to 15 times the clamped normalized offset
\* on each axis, the grid cell ((pupilX+15)/3, (pupilY+15)/3) and the render
\* offset (-100*col, -100*row); normalized (1,1) gives pupil (15,15), cell
\* (10,10), offset (-1000,-1000) and onLooking(); (-1,-1) gives cell (0,0) and
\* offset (0,0); (0,0) gives pupil (0,0), cell (5,5), offset (-500,-500) and
\* onCenter().
C10_EndToEndDefaults ==
  (HandledMove /\ Measurable /\ props = DefaultProps)
    => LET clientX == lastEvent[1]
           clientY == lastEvent[2]
           nx == clampUnit([n |-> 2 * (clientX - rect.left) - rect.width,
                            d |-> rect.width])
           ny == clampUnit([n |-> 2 * rect.top + rect.height - 2 * clientY,
                            d |-> rect.height])
       IN  /\ NearestDefaultStep(currentPupil.x, nx)
           /\ NearestDefaultStep(currentPupil.y, ny)
           /\ 3 * gridPosition.col = currentPupil.x + 15
           /\ 3 * gridPosition.row = currentPupil.y + 15
           /\ backgroundPosition.x = -100 * gridPosition.col
           /\ backgroundPosition.y = -100 * gridPosition.row
           /\ (clientX >= rect.left + rect.width /\ clientY <= rect.top)
                => /\ currentPupil = [x |-> 15, y |-> 15]
                   /\ gridPosition = [col |-> 10, row |-> 10]
                   /\ backgroundPosition = [x |-> -1000, y |-> -1000]
                   /\ calls = <<"onLooking">>
           /\ (clientX <= rect.left /\ clientY >= rect.top + rect.height)
                => /\ currentPupil = [x |-> -15, y |-> -15]
                   /\ gridPosition = [col |-> 0, row |-> 0]
                   /\ backgroundPosition = [x |-> 0, y |-> 0]
                   /\ calls = <<"onLooking">>
           /\ (2 * clientX = 2 * rect.left + rect.width
               /\ 2 * clientY = 2 * rect.top + rect.height)
                => /\ currentPupil = Center
                   /\ gridPosition = [col |-> 5, row |-> 5]
                   /\ backgroundPosition = [x |-> -500, y |-> -500]
                   /\ calls = <<"onCenter">>

\* The pointer at the right edge and the top of the region, defaults.
C10_Witness ==
  /\ HandledMove
  /\ props = DefaultProps
  /\ rect = [left |-> 0, top |-> 0, width |-> 20, height |-> 20]
  /\ lastEvent = <<20, 0>>
  /\ currentPupil = [x |-> 15, y |-> 15]
  /\ gridPosition = [col |-> 10, row |-> 10]

----------------------------------------------------------------------------
(* C11 *)

\* The fraction f is the integer k.
FracIs(f, k) == f.d # 0 /\ f.n = k * f.d

\* C11: for every grid coordinate and every sprite width, sprite height and
\* display size, the applied background position is (-col*size, -row*size)
\* and the applied background size is gridSize*size on both axes, so that
\* exactly the requested cell fills the size x size element.
C11_OneCellFillsElement ==
  (gridPosition.col # NaN /\ gridPosition.row # NaN)
    => /\ style.width = props.size
       /\ style.height = props.size
       /\ FracIs(style.backgroundPosition.x, -(gridPosition.col * props.size))
       /\ FracIs(style.backgroundPosition.y, -(gridPosition.row * props.size))
       /\ FracIs(style.backgroundSize.width, props.gridSize * props.size)
       /\ FracIs(style.backgroundSize.height, props.gridSize * props.size)

----------------------------------------------------------------------------
(* C12 *)

\* C12: for every email and every non-empty key over single-byte characters,
\* the click handler applied to the generator's outputs (Base64 of the XOR
\* of email and key, ROT13 of the key) opens mailto:<email>.
C12_EmailRoundTrip ==
  call.fn = "email" => call.href = [scheme |-> "mailto", address |-> call.email]

\* An email longer than the key (the key repeats), a key that ROT13 changes,
\* an encrypted string that needs Base64 padding.
C12_Witness ==
  /\ call.fn = "email"
  /\ Len(call.email) = 2
  /\ Len(call.key) = 1
  /\ call.encodedKey # call.key
  /\ call.encryptedData[4] = Pad
  /\ call.href.address = call.email

----------------------------------------------------------------------------
(* C13 *)

\* C13: for every v in [-1,1] with p = quantizeToGrid(v), mapping p back to
\* its normalized value 2*(p - minValue)/(maxValue - minValue) - 1 and
\* quantizing again returns p, and both resolve to the same grid cell.
C13_QuantizeIdempotent ==
  call.fn = "quantize" => (call.again = call.p /\ call.cellAgain = call.cell)

\* v = 1/3 with the defaults: p = 6, mapped back to 12/30, quantized to 6.
C13_Witness ==
  /\ call.fn = "quantize"
  /\ props = DefaultProps
  /\ call.v = [n |-> 1, d |-> 3]
  /\ call.p = 6
  /\ call.back = [n |-> 12, d |-> 30]
  /\ call.again = 6

----------------------------------------------------------------------------
(* C16 *)

\* The pupil range is symmetric about 0 and its ends are multiples of step,
\* as with the defaults.
SymmetricAligned(p) ==
  /\ p.minValue = -p.maxValue
  /\ p.maxValue % p.step = 0

----------------------------------------------------------------------------
(* C14 *)

\* C14: a touch-end cancels the pending idle timer and starts a new one, and
\* changes nothing else: pupil, grid coordinate, render offset and gaze state
\* are unchanged and no callback is invoked by the touch-end itself.
C14_TouchEndFrame ==
  [][ (lastStep' = "touchend" /\ "touchend" \in listeners)
        => /\ UNCHANGED <<currentPupil, gridPosition, backgroundPosition,
                          isLooking>>
           /\ calls' = <<>>
           /\ idleTimerRef' # idleTimerRef
           /\ idleTimerRef' \notin timers
           /\ timers' = {idleTimerRef'}
    ]_vars

\* A touch-end while the gaze is off center and the overlay is shown.
C14_Witness ==
  /\ phase = "mounted"
  /\ lastStep = "touchend"
  /\ currentPupil # Center
  /\ currentPupil.x # NaN
  /\ currentPupil.y # NaN
  /\ isLooking
  /\ timers = {idleTimerRef}

----------------------------------------------------------------------------
(* C15 *)

\* C15: an idle expiry invokes onCenter() and leaves pupil, grid coordinate
\* and render offset at the values of the last pointer event.
C15_IdleKeepsPosition ==
  [][ lastStep' = "timer"
        => /\ UNCHANGED <<currentPupil, gridPosition, backgroundPosition>>
           /\ calls' = <<"onCenter">>
    ]_vars

\* After an expiry that followed a move to the far corner, defaults.
C15_Witness ==
  /\ lastStep = "timer"
  /\ props = DefaultProps
  /\ currentPupil = [x |-> 15, y |-> 15]
  /\ gridPosition = [col |-> 10, row |-> 10]
  /\ backgroundPosition = [x |-> -1000, y |-> -1000]
  /\ calls = <<"onCenter">>

----------------------------------------------------------------------------
(* C18 *)

\* C18: the overlay is visible exactly when the most recent callback was
\* onLooking(): it is hidden at mount, becomes visible only by a pointer event
\* that resolves to a non-center pupil, follows every callback, keeps its
\* value in a step without callback, and is hidden after every idle expiry
\* and every pointer event that resolves to pupil (0,0).
C18_OverlayTracksLastCallback ==
  /\ overlayOpacity = 0
  /\ [][ /\ calls' = <<"onLooking">> => overlayOpacity' = 1
         /\ calls' = <<"onCenter">> => overlayOpacity' = 0
         /\ calls' = <<>> => overlayOpacity' = overlayOpacity
         /\ (overlayOpacity = 0 /\ overlayOpacity' = 1)
              => (lastStep' \in Moves /\ lastEvent' # <<>> /\ currentPupil' # Center)
         /\ lastStep' = "timer" => overlayOpacity' = 0
         /\ (lastStep' \in Moves /\ lastEvent' # <<>> /\ currentPupil' = Center)
              => overlayOpacity' = 0
       ]_vars

\* The overlay shown again by a non-center move after an idle period.
C18_Witness ==
  /\ phase = "mounted"
  /\ HandledMove
  /\ overlayOpacity = 1
  /\ calls = <<"onLooking">>
  /\ idleTimerRef >= 2

----------------------------------------------------------------------------
(* C17 *)

\* C17: while Avatar is mounted exactly one random-shake timeout is pending,
\* and the delay of every random shake is between 15 and 30 seconds.
C17_RandomShakeCadence ==
  LET random == { t \in avatarTimers : t.kind = "randomShake" } IN
  /\ avatarPhase = "mounted" => Cardinality(random) = 1
  /\ \A t \in random : 15000 <= t.delay /\ t.delay <= 30000

----------------------------------------------------------------------------
(* C19 *)

\* C19: after Avatar unmounts no timeout created by Avatar is pending and no
\* setShake call happens; while it is mounted a shake in progress has its
\* setShake(false) due within 600 ms.
C19_AvatarTeardown ==
  /\ avatarPhase = "unmounted"
       => /\ avatarTimers = {}
          /\ lastAvatarStep = "unmount"
  /\ (avatarPhase = "mounted" /\ shake)
       => \E t \in avatarTimers :
            t.kind = "shakeEnd" /\ t.due <= now + ShakeDuration

====
